---- MODULE Spec2Model ----
\* A/B-testing edge worker (src/index.js): the per-request pipeline
\*   getVariants -> getRandomElement -> getVariantText -> prepareResponse
\*   -> transformResponse
\* as a state machine over concurrently served requests, together with the
\* pure functions it is built from.
\*
\* JavaScript strings are sequences of one-character strings, so that the
\* cookie formatting of prepareResponse and the regular-expression parsing of
\* getCookie are computed character by character.
EXTENDS Integers, Sequences, FiniteSets, TLC

\* ------------------------------------------------------------------ bounds
MaxRequests == 2
Gran == 2
MaxPairs == 2

\* handleRequest invocations that may be in flight together
Req == {"r1", "r2"}

\* ------------------------------------------------------- JavaScript values
Undefined == [t |-> "undefined", s |-> <<>>, a |-> <<>>]
Null == [t |-> "null", s |-> <<>>, a |-> <<>>]
\* a promise that has not settled
Pending == [t |-> "pending", s |-> <<>>, a |-> <<>>]
Str(chars) == [t |-> "string", s |-> chars, a |-> <<>>]
Arr(elems) == [t |-> "array", s |-> <<>>, a |-> elems]

\* ToBoolean: undefined, null and the empty string are falsy
Truthy(v) == \/ v.t = "array"
             \/ v.t = "string" /\ v.s # <<>>

UndefinedText == <<"u", "n", "d", "e", "f", "i", "n", "e", "d">>
NullText == <<"n", "u", "l", "l">>

\* ToString, as applied by a template literal
ToStr(v) ==
  CASE v.t = "string" -> v.s
    [] v.t = "undefined" -> UndefinedText
    [] v.t = "null" -> NullText
    [] OTHER -> <<>>

\* ---------------------------------------------------------------- strings
URL1 == <<"h", "t", "t", "p", "s", ":", "/", "/", "c", "f", "w", "-", "t", "a", "k", "e", "h", "o", "m", "e", ".", "d", "e", "v", "e", "l", "o", "p", "e", "r", "s", ".", "w", "o", "r", "k", "e", "r", "s", ".", "d", "e", "v", "/", "v", "a", "r", "i", "a", "n", "t", "s", "/", "1">>
URL2 == <<"h", "t", "t", "p", "s", ":", "/", "/", "c", "f", "w", "-", "t", "a", "k", "e", "h", "o", "m", "e", ".", "d", "e", "v", "e", "l", "o", "p", "e", "r", "s", ".", "w", "o", "r", "k", "e", "r", "s", ".", "d", "e", "v", "/", "v", "a", "r", "i", "a", "n", "t", "s", "/", "2">>
\* a variant the list endpoint may serve that the worker has no copy for
URL3 == <<"h", "t", "t", "p", "s", ":", "/", "/", "c", "f", "w", "-", "t", "a", "k", "e", "h", "o", "m", "e", ".", "d", "e", "v", "e", "l", "o", "p", "e", "r", "s", ".", "w", "o", "r", "k", "e", "r", "s", ".", "d", "e", "v", "/", "v", "a", "r", "i", "a", "n", "t", "s", "/", "3">>
VariantName == <<"v", "a", "r", "i", "a", "n", "t">>

\* ------------------------------------------------------------- getCookie
\* the characters name.replace(...) prefixes with a backslash
SpecialChars == {".", "$", "?", "*", "|", "{", "}", "(", ")", "[", "]", "\\", "/", "+", "^"}

RECURSIVE EscapeName(_)
EscapeName(name) ==
  IF name = <<>> THEN <<>>
  ELSE (IF Head(name) \in SpecialChars THEN <<"\\", Head(name)>> ELSE <<Head(name)>>)
       \o EscapeName(Tail(name))

\* the pattern source between "(?:^|; )" and "=([^;]*)", read as the RegExp
\* constructor reads it: backslash-c is the literal c, a bare dot is any
\* character, every other character stands for itself
RECURSIVE PatternAtoms(_)
PatternAtoms(src) ==
  IF src = <<>> THEN <<>>
  ELSE IF Head(src) = "\\" /\ Len(src) >= 2
       THEN <<[any |-> FALSE, c |-> src[2]]>> \o PatternAtoms(Tail(Tail(src)))
       ELSE <<[any |-> Head(src) = ".", c |-> Head(src)]>> \o PatternAtoms(Tail(src))

NameMatchesAt(cookies, k, atoms) ==
  /\ k + Len(atoms) - 1 <= Len(cookies)
  /\ \A i \in 1..Len(atoms) : atoms[i].any \/ atoms[i].c = cookies[k + i - 1]

\* the pattern without its "(?:^|; )" prefix: the name may start anywhere
AnchoredAnywhere(cookies, k) == k >= 1

\* "(?:^|; )": the name starts at the start of the text or right after "; "
AnchoredAt(cookies, k) ==
  \/ k = 1
  \/ k >= 3 /\ cookies[k - 2] = ";" /\ cookies[k - 1] = " "

\* "([^;]*)": the longest run without the stop character, from index from
CaptureFrom(cookies, from, stop) ==
  LET stops == {j \in from..Len(cookies) : cookies[j] = stop}
      last == IF stops = {} THEN Len(cookies)
              ELSE (CHOOSE j \in stops : \A j2 \in stops : j <= j2) - 1
  IN SubSeq(cookies, from, last)

\* cookies.match(new RegExp("(?:^|; )" + escaped name + "=([^;]*)")): the
\* leftmost match; Null when there is none, else the captured group
CookieMatch(cookies, name, stop) ==
  LET atoms == PatternAtoms(EscapeName(name) \o <<"=">>)
      starts == {k \in 1..(Len(cookies) + 1) :
                   AnchoredAt(cookies, k) /\ NameMatchesAt(cookies, k, atoms)}
  IN IF starts = {} THEN Null
     ELSE LET k0 == CHOOSE k \in starts : \A k2 \in starts : k <= k2
          IN Str(CaptureFrom(cookies, k0 + Len(atoms), stop))

\* request.headers.get('Cookie') is Null when the header is absent
getCookie(request, name) ==
  LET cookies == request.Cookie
      cookie == IF Truthy(cookies) THEN CookieMatch(cookies.s, name, ";") ELSE Undefined
  IN IF cookie.t = "string" THEN cookie ELSE Undefined

\* ------------------------------------------------------ getRandomElement
\* the index taken without scaling by the length
getRandomElementUnscaled(elements, rand) ==
  IF rand + 1 \in DOMAIN elements.a THEN elements.a[rand + 1] ELSE Undefined

\* elements[Math.floor(Math.random() * elements.length)], Math.random() = rand/Gran
getRandomElement(elements, rand) ==
  LET idx == (rand * Len(elements.a)) \div Gran
  IN IF idx + 1 \in DOMAIN elements.a THEN elements.a[idx + 1] ELSE Undefined

\* a missing list read as an empty one
LengthNeverThrows(elements) == FALSE

\* reading .length of undefined or null throws a TypeError
LengthThrows(elements) == elements.t \in {"undefined", "null"}

\* ------------------------------------------------------------ documents
\* An HTML document is the sequence of its elements; an element has a tag,
\* attributes and an inner content.  NoValue marks an attribute that is not set.
NoValue == "(none)"
AttrNames == {"id", "href", "class"}
Element(tag, id, href, class, inner) ==
  [tag |-> tag, attrs |-> [n \in AttrNames |-> CASE n = "id" -> id [] n = "href" -> href [] OTHER -> class],
   inner |-> inner]

Page ==
  << Element("title", NoValue, NoValue, NoValue, "old"),
     Element("h1", "title", NoValue, "big", "x"),
     Element("h1", NoValue, NoValue, NoValue, "subheading"),
     Element("p", "description", NoValue, NoValue, "y"),
     Element("p", "title", NoValue, NoValue, "footer"),
     Element("a", "url", "#", "btn", "z"),
     Element("a", "other", "/keep", NoValue, "elsewhere") >>
ErrorPage ==
  << Element("title", NoValue, NoValue, NoValue, "Error"),
     Element("h1", NoValue, NoValue, NoValue, "Bad gateway") >>
Docs == {Page, ErrorPage}

\* ------------------------------------------------------- prepareResponse
NoResponse == [kind |-> "none", body |-> <<>>, ContentType |-> "", SetCookie |-> <<>>]
NoText == [text |-> <<>>, url |-> Undefined]

\* the value written between double quotes
SetCookieValueQuoted(url) == VariantName \o <<"=", "\"">> \o ToStr(url) \o <<"\"">>

\* `variant=${variant.url}`
SetCookieValue(url) == VariantName \o <<"=">> \o ToStr(url)

\* the cookie written from a property the wrapper object does not have
prepareResponseWrongProperty(variantText) ==
  [kind |-> "response", body |-> variantText.text,
   ContentType |-> "text/html;charset=UTF-8",
   SetCookie |-> VariantName \o <<"=">> \o ToStr(Undefined)]

prepareResponse(variantText) ==
  [kind |-> "response", body |-> variantText.text,
   ContentType |-> "text/html;charset=UTF-8",
   SetCookie |-> SetCookieValue(variantText.url)]

\* ---------------------------------------------------------- ElementHandler
NoAttribute == "(undefined)"
ElementHandler(content, attribute, attributeContent) ==
  [content |-> content, attribute |-> attribute, attributeContent |-> attributeContent]

\* ElementHandler.element: setInnerContent, then setAttribute when an
\* attribute was given
HandleElement(h, el) ==
  LET e1 == [el EXCEPT !.inner = h.content]
  IN IF h.attribute # NoAttribute
     THEN [e1 EXCEPT !.attrs[h.attribute] = h.attributeContent]
     ELSE e1

\* ------------------------------------------------------ transformResponse
contentMap ==
  (URL1 :> [pageTitle |-> "Variant 1",
            title |-> "Full-Stack Internship Application",
            description |-> "Thank you for considering my application to Cloudflare!",
            linkText |-> "View the repository.",
            url |-> "https://github.com/LukeAVanDrie/internship-application-fullstack"])
  @@
  (URL2 :> [pageTitle |-> "Variant 2",
            title |-> "About Me",
            description |-> "My name is Luke Van Drie, and I am a sophomore studying computer science and mathematics at UNL.",
            linkText |-> "Please join my LinkedIn network!",
            url |-> "https://www.linkedin.com/in/luke-van-drie"])

\* contentMap[variant] is undefined for a key the table does not have
HasContent(variant) == ToStr(variant) \in DOMAIN contentMap

\* a selector: a tag, and an id when the selector has one
AnyId == "(any)"
Selector(tag, id) == [tag |-> tag, id |-> id]
\* the id of the selector ignored
SelectsByTag(sel, el) == el.tag = sel.tag
Selects(sel, el) == el.tag = sel.tag /\ (sel.id = AnyId \/ el.attrs["id"] = sel.id)

\* the four .on(selector, handler) registrations
Handlers(content) ==
  << [sel |-> Selector("title", AnyId),
      h |-> ElementHandler(content.pageTitle, NoAttribute, "")],
     [sel |-> Selector("h1", "title"),
      h |-> ElementHandler(content.title, NoAttribute, "")],
     [sel |-> Selector("p", "description"),
      h |-> ElementHandler(content.description, NoAttribute, "")],
     [sel |-> Selector("a", "url"),
      h |-> ElementHandler(content.linkText, "href", content.url)] >>

RECURSIVE ApplyHandlers(_, _)
ApplyHandlers(hs, el) ==
  IF hs = <<>> THEN el
  ELSE ApplyHandlers(Tail(hs),
                     IF Selects(Head(hs).sel, el) THEN HandleElement(Head(hs).h, el) ELSE el)

\* HTMLRewriter.transform: every element goes through the handlers whose
\* selector it matches
Transform(hs, doc) == [i \in DOMAIN doc |-> ApplyHandlers(hs, doc[i])]

\* defined only when HasContent(variant); headers are carried over
transformResponse(response, variant) ==
  LET content == contentMap[ToStr(variant)]
  IN [response EXCEPT !.body = Transform(Handlers(content), response.body)]

\* ----------------------------------------------------------------- inputs
Pair(name, value) == [name |-> name, value |-> value]

\* a Cookie header: name=value pairs separated by "; "
RECURSIVE JoinPairs(_)
JoinPairs(pairs) ==
  IF pairs = <<>> THEN <<>>
  ELSE Head(pairs).name \o <<"=">> \o Head(pairs).value
       \o (IF Tail(pairs) = <<>> THEN <<>> ELSE <<";", " ">> \o JoinPairs(Tail(pairs)))

Header(pairs) == [Cookie |-> Str(JoinPairs(pairs))]
NoCookieHeader == [Cookie |-> Null]

Foo == <<"f", "o", "o">>
Bar == <<"b", "a", "r">>
Baz == <<"b", "a", "z">>
Qux == <<"q", "u", "x">>
XVariant == <<"x">> \o VariantName

\* the Cookie headers of first-time requests
Headers ==
  { NoCookieHeader,
    Header(<<Pair(VariantName, URL1)>>),
    Header(<<Pair(Foo, Bar), Pair(VariantName, <<"2">>), Pair(Baz, Qux)>>),
    Header(<<Pair(Foo, Bar), Pair(VariantName, URL2)>>),
    Header(<<Pair(XVariant, URL1), Pair(VariantName, <<>>)>>) }

\* response statuses; as the status of a fetch, 0 stands for no reply yet and
\* -1 for a fetch that rejected (network error)
Statuses == {200, 500}

\* what the variant-list endpoint may answer: the fetch rejects, or a response
\* arrives whose body is not JSON, or JSON whose `variants` is data
VariantLists == { Undefined, Arr(<<>>), Arr(<<Str(URL1), Str(URL2)>>), Arr(<<Str(URL3)>>) }
ListOutcomes ==
  {[net |-> "error", status |-> -1, json |-> FALSE, data |-> Undefined]}
  \cup {[net |-> "ok", status |-> st, json |-> FALSE, data |-> Undefined] : st \in Statuses}
  \cup {[net |-> "ok", status |-> st, json |-> TRUE, data |-> d] : st \in Statuses, d \in VariantLists}

\* what a variant's server may answer
ContentOutcomes ==
  {[net |-> "error", status |-> -1, text |-> <<>>]}
  \cup {[net |-> "ok", status |-> st, text |-> d] : st \in Statuses, d \in Docs}

\* ------------------------------------------------------------------ state
VARIABLES
  pc,             \* where each handleRequest invocation stands
  request,        \* its request (the Cookie header)
  variants,       \* what getVariants resolved to
  variant,        \* `let variant` of handleRequest
  fetchedUrl,     \* the parameter of getVariantText, the url given to fetch
  variantText,    \* what getVariantText resolved to
  response,       \* what prepareResponse returned
  result,         \* what handleRequest resolved to (handed to respondWith)
  lookupKey,      \* the key transformResponse looked up in contentMap
  failedAt,       \* the stage in which the promise chain rejected
  listFetches,    \* fetches of /api/variants issued for the request
  contentFetches, \* fetches of a variant's html issued for the request
  listStatus,     \* how the variant-list fetch settled
  contentStatus,  \* how the variant-content fetch settled
  echoOf,         \* the variant whose Set-Cookie the request presents back
  issued,         \* Set-Cookie headers delivered to clients so far
  started,        \* requests received so far
  probeRequest,   \* getCookie in isolation: its request,
  probePairs,     \*   the pairs the header was written from,
  probeName,      \*   the name asked for,
  probeResult     \*   and what it returned

pipeVars == <<pc, request, variants, variant, fetchedUrl, variantText, response, result,
              lookupKey, failedAt, listFetches, contentFetches, listStatus,
              contentStatus, echoOf, issued, started>>
probeVars == <<probeRequest, probePairs, probeName, probeResult>>
vars == <<pipeVars, probeVars>>

InitPipeline ==
  /\ pc = [r \in Req |-> "idle"]
  /\ request = [r \in Req |-> NoCookieHeader]
  /\ variants = [r \in Req |-> Pending]
  /\ variant = [r \in Req |-> Undefined]
  /\ fetchedUrl = [r \in Req |-> Undefined]
  /\ variantText = [r \in Req |-> NoText]
  /\ response = [r \in Req |-> NoResponse]
  /\ result = [r \in Req |-> NoResponse]
  /\ lookupKey = [r \in Req |-> <<>>]
  /\ failedAt = [r \in Req |-> "none"]
  /\ listFetches = [r \in Req |-> 0]
  /\ contentFetches = [r \in Req |-> 0]
  /\ listStatus = [r \in Req |-> 0]
  /\ contentStatus = [r \in Req |-> 0]
  /\ echoOf = [r \in Req |-> Undefined]
  /\ issued = {}
  /\ started = 0

InitProbe ==
  /\ probeRequest = NoCookieHeader
  /\ probePairs = <<>>
  /\ probeName = VariantName
  /\ probeResult = Pending

Init == InitPipeline /\ InitProbe

\* ---------------------------------------------------------------- actions
\* `variant` declared outside handleRequest: one binding for all invocations
BindVariantShared(r, v) == [q \in Req |-> v]

\* `let variant` is a binding of the invocation: assigning it touches no
\* other invocation
BindVariant(r, v) == [variant EXCEPT ![r] = v]

\* the stage tried again from the resolved list
RejectRetry(r, stage) ==
  /\ pc' = [pc EXCEPT ![r] = IF pc[r] = "awaitList" THEN "awaitList" ELSE "variantsReady"]
  /\ failedAt' = [failedAt EXCEPT ![r] = stage]

\* the rejection caught and the chain carried on
RejectCaught(r, stage) ==
  /\ pc' = [pc EXCEPT ![r] = IF pc[r] = "Rewriting" THEN "Done" ELSE "BuildingResponse"]
  /\ failedAt' = [failedAt EXCEPT ![r] = stage]

\* the promise chain rejects in the given stage; nothing catches it
Reject(r, stage) ==
  /\ pc' = [pc EXCEPT ![r] = "Failed"]
  /\ failedAt' = [failedAt EXCEPT ![r] = stage]

\* A fetch event: handleRequest runs up to its first suspension.  getVariants
\* reads the cookie and either resolves to [storedVariant] or issues the
\* fetch of the variant list.
HandleRequest(r, req, echo) ==
  /\ pc[r] \in {"idle", "Done", "Failed"}
  /\ started < MaxRequests
  /\ started' = started + 1
  /\ request' = [request EXCEPT ![r] = req]
  /\ echoOf' = [echoOf EXCEPT ![r] = echo]
  /\ variant' = BindVariant(r, Undefined)
  /\ fetchedUrl' = [fetchedUrl EXCEPT ![r] = Undefined]
  /\ variantText' = [variantText EXCEPT ![r] = NoText]
  /\ response' = [response EXCEPT ![r] = NoResponse]
  /\ result' = [result EXCEPT ![r] = NoResponse]
  /\ lookupKey' = [lookupKey EXCEPT ![r] = <<>>]
  /\ failedAt' = [failedAt EXCEPT ![r] = "none"]
  /\ contentFetches' = [contentFetches EXCEPT ![r] = 0]
  /\ listStatus' = [listStatus EXCEPT ![r] = 0]
  /\ contentStatus' = [contentStatus EXCEPT ![r] = 0]
  /\ LET storedVariant == getCookie(req, VariantName)
     IN IF Truthy(storedVariant)
        THEN /\ variants' = [variants EXCEPT ![r] = Arr(<<storedVariant>>)]
             /\ listFetches' = [listFetches EXCEPT ![r] = 0]
             /\ pc' = [pc EXCEPT ![r] = "variantsReady"]
        ELSE /\ variants' = [variants EXCEPT ![r] = Pending]
             /\ listFetches' = [listFetches EXCEPT ![r] = 1]
             /\ pc' = [pc EXCEPT ![r] = "awaitList"]
  /\ UNCHANGED <<issued, probeVars>>

\* The fetch of the variant list settles: response.json(), then data.variants.
ListFetchSettles(r, out) ==
  /\ pc[r] = "awaitList"
  /\ listStatus' = [listStatus EXCEPT ![r] = out.status]
  /\ IF out.net = "error" \/ ~out.json
     THEN /\ Reject(r, "SelectingVariant")
          /\ UNCHANGED variants
     ELSE /\ variants' = [variants EXCEPT ![r] = out.data]
          /\ pc' = [pc EXCEPT ![r] = "variantsReady"]
          /\ UNCHANGED failedAt
  /\ UNCHANGED <<request, variant, fetchedUrl, variantText, response, result, lookupKey,
                 listFetches, contentFetches, contentStatus, echoOf, issued, started,
                 probeVars>>

\* The first .then callback: variant = getRandomElement(variants), then
\* getVariantText(variant) issues the fetch of the variant's html.
PickVariant(r, rand) ==
  /\ pc[r] = "variantsReady"
  /\ IF LengthThrows(variants[r])
     THEN /\ Reject(r, "SelectingVariant")
          /\ UNCHANGED <<variant, fetchedUrl, contentFetches>>
     ELSE /\ variant' = BindVariant(r, getRandomElement(variants[r], rand))
          /\ fetchedUrl' = [fetchedUrl EXCEPT ![r] = variant'[r]]
          /\ contentFetches' = [contentFetches EXCEPT ![r] = @ + 1]
          /\ pc' = [pc EXCEPT ![r] = "awaitContent"]
          /\ UNCHANGED failedAt
  /\ UNCHANGED <<request, variants, variantText, response, result, lookupKey,
                 listFetches, listStatus, contentStatus, echoOf, issued, started,
                 probeVars>>

\* The fetch of the variant's html settles: response.text() whatever the
\* status, paired with the url that was fetched.
ContentFetchSettles(r, out) ==
  /\ pc[r] = "awaitContent"
  /\ contentStatus' = [contentStatus EXCEPT ![r] = out.status]
  /\ IF out.net = "error"
     THEN /\ Reject(r, "Fetching")
          /\ UNCHANGED variantText
     ELSE /\ variantText' = [variantText EXCEPT ![r] = [text |-> out.text, url |-> fetchedUrl[r]]]
          /\ pc' = [pc EXCEPT ![r] = "BuildingResponse"]
          /\ UNCHANGED failedAt
  /\ UNCHANGED <<request, variants, variant, fetchedUrl, response, result, lookupKey,
                 listFetches, contentFetches, listStatus, echoOf, issued, started,
                 probeVars>>

\* The second .then callback.
PrepareResponse(r) ==
  /\ pc[r] = "BuildingResponse"
  /\ response' = [response EXCEPT ![r] = prepareResponse(variantText[r])]
  /\ pc' = [pc EXCEPT ![r] = "Rewriting"]
  /\ UNCHANGED <<request, variants, variant, fetchedUrl, variantText, result, lookupKey,
                 failedAt, listFetches, contentFetches, listStatus, contentStatus,
                 echoOf, issued, started, probeVars>>

\* The third .then callback: contentMap[variant], whose properties are read
\* without a check (a TypeError when the key is missing), then the rewrite;
\* the transformed response is what the client receives.
TransformResponse(r) ==
  /\ pc[r] = "Rewriting"
  /\ lookupKey' = [lookupKey EXCEPT ![r] = ToStr(variant[r])]
  /\ IF ~HasContent(variant[r])
     THEN /\ Reject(r, "Rewriting")
          /\ UNCHANGED <<result, issued>>
     ELSE /\ result' = [result EXCEPT ![r] = transformResponse(response[r], variant[r])]
          /\ issued' = issued \cup {[setCookie |-> result'[r].SetCookie, variant |-> variant[r]]}
          /\ pc' = [pc EXCEPT ![r] = "Done"]
          /\ UNCHANGED failedAt
  /\ UNCHANGED <<request, variants, variant, fetchedUrl, variantText, response,
                 listFetches, contentFetches, listStatus, contentStatus, echoOf,
                 started, probeVars>>

\* a request is a first-time one, or presents back a Set-Cookie it was given
Inputs ==
  {[req |-> h, echo |-> Undefined] : h \in Headers}
  \cup {[req |-> [Cookie |-> Str(i.setCookie)], echo |-> i.variant] : i \in issued}

Next ==
  \/ \E r \in Req, in \in Inputs : HandleRequest(r, in.req, in.echo)
  \/ \E r \in Req, out \in ListOutcomes : ListFetchSettles(r, out)
  \/ \E r \in Req, rand \in 0..(Gran - 1) : PickVariant(r, rand)
  \/ \E r \in Req, out \in ContentOutcomes : ContentFetchSettles(r, out)
  \/ \E r \in Req : PrepareResponse(r)
  \/ \E r \in Req : TransformResponse(r)

Spec == Init /\ [][Next]_vars

\* ------------------------------------------------- getCookie in isolation
Dotted == <<"a", ".", "b">>
Undotted == <<"a", "x", "b">>
PairNames == {VariantName, XVariant, Dotted, Undotted}
PairValues == {<<>>, <<"2">>, <<"x", "=", "1">>}
PairsOfLen(n) == [1..n -> {Pair(nm, v) : nm \in PairNames, v \in PairValues}]
ExamplePairs == <<Pair(Foo, Bar), Pair(VariantName, <<"2">>), Pair(Baz, Qux)>>
ProbePairs == UNION {PairsOfLen(n) : n \in 0..MaxPairs} \cup {ExamplePairs}
ProbeNames == {VariantName, Dotted}

\* the requests getCookie is applied to: a Cookie header written from pairs,
\* or no Cookie header
InitCookie ==
  /\ InitPipeline
  /\ probePairs \in ProbePairs
  /\ probeRequest \in {Header(probePairs)} \cup (IF probePairs = <<>> THEN {NoCookieHeader} ELSE {})
  /\ probeName \in ProbeNames
  /\ probeResult = Pending

\* getCookie(request, name)
ProbeCookie ==
  /\ probeResult = Pending
  /\ probeResult' = getCookie(probeRequest, probeName)
  /\ UNCHANGED <<pipeVars, probeRequest, probePairs, probeName>>

NextCookie == ProbeCookie

SpecCookie == InitCookie /\ [][NextCookie]_vars

\* ------------------------------------------------------------ properties
\* The pairs of a Cookie header, read by splitting the text at each "; " and
\* each piece at its first "=" (a piece without "=" is a name without value).
SplitAt(chars, i) ==
  i + 1 <= Len(chars) /\ chars[i] = ";" /\ chars[i + 1] = " "

RECURSIVE Pieces(_)
Pieces(chars) ==
  LET cuts == {i \in 1..Len(chars) : SplitAt(chars, i)}
  IN IF cuts = {} THEN <<chars>>
     ELSE LET c == CHOOSE i \in cuts : \A j \in cuts : i <= j
          IN <<SubSeq(chars, 1, c - 1)>> \o Pieces(SubSeq(chars, c + 2, Len(chars)))

PieceAsPair(piece) ==
  LET eqs == {i \in 1..Len(piece) : piece[i] = "="}
  IN IF eqs = {} THEN [name |-> piece, value |-> <<>>, valued |-> FALSE]
     ELSE LET e == CHOOSE i \in eqs : \A j \in eqs : i <= j
          IN [name |-> SubSeq(piece, 1, e - 1), value |-> SubSeq(piece, e + 1, Len(piece)),
              valued |-> TRUE]

\* the value of the first pair of the list named name, Undefined without one
FirstValue(pairs, name) ==
  LET hits == {i \in 1..Len(pairs) : pairs[i].name = name}
  IN IF hits = {} THEN Undefined
     ELSE Str(pairs[CHOOSE i \in hits : \A j \in hits : i <= j].value)

\* the cookie a request carries under a name
Carried(req, name) ==
  IF req.Cookie.t # "string" THEN Undefined
  ELSE LET ps == Pieces(req.Cookie.s)
           valued == SelectSeq([i \in 1..Len(ps) |-> PieceAsPair(ps[i])], LAMBDA q : q.valued)
       IN FirstValue(valued, name)

\* C8: getCookie returns the value of the first pair of the Cookie header
\* whose name is exactly the name asked for, and undefined when the header has
\* no such pair or is absent.
CookieParsing ==
  probeResult # Pending =>
    probeResult = (IF probeRequest.Cookie.t = "string"
                   THEN FirstValue(probePairs, probeName) ELSE Undefined)

\* a header whose first pair's name only ends in the name asked for
CookieParsingWitness ==
  /\ probeName = VariantName
  /\ Len(probePairs) = 2
  /\ probePairs[1].name = XVariant /\ probePairs[1].value = <<"x", "=", "1">>
  /\ probePairs[2].name = VariantName
  /\ probeResult = Str(<<"2">>)

\* C1: a request whose Cookie header carries a non-empty `variant` value V
\* has getVariants resolve to [V] and selects V, and no fetch of the variant
\* list is ever issued for it.
Stickiness ==
  \A r \in Req :
    LET V == Carried(request[r], VariantName)
    IN (pc[r] # "idle" /\ Truthy(V)) =>
         /\ variants[r] = Arr(<<V>>)
         /\ listFetches[r] = 0
         /\ listStatus[r] = 0
         /\ pc[r] # "awaitList"
         /\ (contentFetches[r] > 0 => variant[r] = V /\ fetchedUrl[r] = V)

StickinessWitness ==
  \E r \in Req :
    /\ request[r] = Header(<<Pair(Foo, Bar), Pair(VariantName, URL2)>>)
    /\ pc[r] = "Done"
    /\ variant[r] = Str(URL2)
    /\ listFetches[r] = 0


\* C2: a variant absent from the content table that reaches transformResponse
\* ends the request in a defined response, never in an unhandled exception.
UnknownVariantHandled ==
  \A r \in Req :
    (pc[r] \in {"Done", "Failed"} /\ lookupKey[r] # <<>> /\ lookupKey[r] \notin DOMAIN contentMap)
      => pc[r] = "Done" /\ result[r].kind = "response"

\* C3: a request presenting back the Set-Cookie: variant=X of a response has
\* getCookie return X, fetches no variant list and selects X again, and the
\* response it gets carries the same cookie.
CookieRoundTrip ==
  /\ \A i \in issued : getCookie([Cookie |-> Str(i.setCookie)], VariantName) = i.variant
  /\ \A r \in Req :
       (pc[r] # "idle" /\ echoOf[r] # Undefined) =>
         /\ getCookie(request[r], VariantName) = echoOf[r]
         /\ listFetches[r] = 0
         /\ (contentFetches[r] > 0 => variant[r] = echoOf[r])
         /\ (pc[r] = "Done" => result[r].SetCookie = request[r].Cookie.s)

CookieRoundTripWitness ==
  \E r \in Req :
    /\ echoOf[r] = Str(URL2)
    /\ pc[r] = "Done"
    /\ variant[r] = Str(URL2)
    /\ result[r].SetCookie = request[r].Cookie.s

\* C4: in a request that reaches Done, the url that was fetched, the url in
\* the Set-Cookie header of the response and the key looked up in the
\* content table are one value, the variant picked in SelectingVariant.
VariantThreaded ==
  \A r \in Req :
    pc[r] = "Done" =>
      /\ variant[r].t = "string"
      /\ \E i \in 1..Len(variants[r].a) : variants[r].a[i] = variant[r]
      /\ fetchedUrl[r] = variant[r]
      /\ variantText[r].url = variant[r]
      /\ result[r].SetCookie = VariantName \o <<"=">> \o variant[r].s
      /\ lookupKey[r] = variant[r].s

VariantThreadedWitness ==
  \E r \in Req :
    /\ pc[r] = "Done"
    /\ listFetches[r] = 1
    /\ variants[r] = Arr(<<Str(URL1), Str(URL2)>>)
    /\ variant[r] = Str(URL2)

\* C5: a pipeline moves through SelectingVariant, Fetching, BuildingResponse,
\* Rewriting, Done one stage at a time, in that order; it issues at most one
\* fetch of the list and one of the content; a failure ends it, with no
\* response for the client.
Stage(p) ==
  CASE p \in {"awaitList", "variantsReady"} -> 1
    [] p = "awaitContent" -> 2
    [] p = "BuildingResponse" -> 3
    [] p = "Rewriting" -> 4
    [] p = "Done" -> 5
    [] OTHER -> 0

ForwardStep(r) ==
  \/ pc'[r] = pc[r]
  \/ pc[r] \in {"idle", "Done", "Failed"} /\ started' = started + 1 /\ Stage(pc'[r]) = 1
  \/ pc[r] = "awaitList" /\ pc'[r] = "variantsReady"
  \/ Stage(pc[r]) \in 1..4 /\ pc[r] # "awaitList" /\ Stage(pc'[r]) = Stage(pc[r]) + 1
  \/ Stage(pc[r]) \in 1..4 /\ pc'[r] = "Failed"

UpstreamFailureAborts ==
  \A r \in Req :
    (listStatus[r] \notin {0, 200} \/ contentStatus[r] \notin {0, 200})
      => pc[r] = "Failed" /\ result[r].kind = "none"

\* C6 amended: a list or content fetch that rejects (network error) ends the
\* request as an unhandled error: nothing is fetched again, no later stage
\* runs, no response is built or returned.  (A non-2xx status is no failure:
\* the body is used whatever the status.)
NetworkErrorAborts ==
  \A r \in Req :
    (listStatus[r] = -1 \/ contentStatus[r] = -1) =>
      /\ pc[r] = "Failed"
      /\ failedAt[r] = (IF listStatus[r] = -1 THEN "SelectingVariant" ELSE "Fetching")
      /\ listFetches[r] <= 1 /\ contentFetches[r] <= 1
      /\ (listStatus[r] = -1 => contentFetches[r] = 0)
      /\ response[r].kind = "none"
      /\ result[r].kind = "none"

NetworkErrorAbortsWitness ==
  /\ \E r \in Req : pc[r] = "Failed" /\ contentStatus[r] = -1 /\ listStatus[r] = 200
  /\ \E r \in Req : pc[r] = "Done" /\ contentStatus[r] = 500

\* C7 as stated: a list body without `variants`, or an empty list, makes
\* getRandomElement yield undefined, and the pipeline fails at the
\* content-table lookup of Rewriting and not earlier.
MalformedListFailsAtLookup ==
  \A r \in Req :
    (variants[r] \in {Undefined, Arr(<<>>)} /\ pc[r] = "Failed") => failedAt[r] = "Rewriting"

\* C7 amended: an empty list makes getRandomElement yield undefined, which is
\* fetched, stamped into the cookie and, unless the content fetch rejects,
\* carried to the content-table lookup of Rewriting, where the pipeline
\* fails; a list body without `variants` makes getRandomElement throw, and
\* the pipeline fails in SelectingVariant with no content fetch.
MalformedList ==
  \A r \in Req :
    /\ (variants[r] = Arr(<<>>) /\ contentFetches[r] > 0) =>
         /\ variant[r] = Undefined
         /\ fetchedUrl[r] = Undefined
         /\ pc[r] # "Done"
         /\ (pc[r] = "Rewriting" => response[r].SetCookie = VariantName \o <<"=">> \o UndefinedText)
         /\ (pc[r] = "Failed" =>
               \/ failedAt[r] = "Rewriting" /\ lookupKey[r] = UndefinedText
               \/ failedAt[r] = "Fetching" /\ contentStatus[r] = -1)
    /\ variants[r] = Undefined =>
         /\ pc[r] \in {"variantsReady", "Failed"}
         /\ contentFetches[r] = 0
         /\ (pc[r] = "Failed" => failedAt[r] = "SelectingVariant")

MalformedListWitness ==
  /\ \E r \in Req : variants[r] = Arr(<<>>) /\ pc[r] = "Failed" /\ failedAt[r] = "Rewriting"
  /\ \E r \in Req : variants[r] = Undefined /\ pc[r] = "Failed"

\* C9: for a variant of the content table, the rewritten body has the inner
\* content of title, h1#title, p#description and a#url replaced by the
\* entry's pageTitle, title, description and linkText, the href of a#url set
\* to the entry's url, and everything else as it was fetched.
Rewritten(old, new, c) ==
  LET id == old.attrs["id"]
  IN /\ new.tag = old.tag
     /\ CASE old.tag = "title" -> new.inner = c.pageTitle /\ new.attrs = old.attrs
          [] old.tag = "h1" /\ id = "title" -> new.inner = c.title /\ new.attrs = old.attrs
          [] old.tag = "p" /\ id = "description" ->
               new.inner = c.description /\ new.attrs = old.attrs
          [] old.tag = "a" /\ id = "url" ->
               /\ new.inner = c.linkText
               /\ new.attrs["href"] = c.url
               /\ \A n \in AttrNames \ {"href"} : new.attrs[n] = old.attrs[n]
          [] OTHER -> new = old

RewriteCorrect ==
  \A r \in Req :
    pc[r] = "Done" =>
      /\ lookupKey[r] \in DOMAIN contentMap
      /\ Len(result[r].body) = Len(variantText[r].text)
      /\ \A i \in 1..Len(variantText[r].text) :
           Rewritten(variantText[r].text[i], result[r].body[i], contentMap[lookupKey[r]])
      /\ result[r].ContentType = response[r].ContentType
      /\ result[r].SetCookie = response[r].SetCookie

RewriteCorrectWitness ==
  \E r \in Req :
    /\ pc[r] = "Done"
    /\ variantText[r].text = Page
    /\ variant[r] = Str(URL1)
    /\ result[r].body[6].attrs["href"] = "https://github.com/LukeAVanDrie/internship-application-fullstack"
    /\ result[r].body[6].attrs["class"] = "btn"
    /\ result[r].body[3] = Page[3]

\* C10: however the pipelines interleave, a step of one leaves the others'
\* state alone, and a completed response is the one the request would get
\* run alone on the same inputs (its Cookie header, the list and the html it
\* was served, a random draw).
Alone(req, list, rand, text) ==
  LET stored == getCookie(req, VariantName)
      vs == IF Truthy(stored) THEN Arr(<<stored>>) ELSE list
      v == getRandomElement(vs, rand)
  IN [variant |-> v,
      response |-> IF HasContent(v)
                   THEN transformResponse(prepareResponse([text |-> text, url |-> v]), v)
                   ELSE NoResponse]

Locals(r) ==
  <<request[r], variants[r], variant[r], fetchedUrl[r], variantText[r], response[r],
    result[r], lookupKey[r], failedAt[r], listFetches[r], contentFetches[r],
    listStatus[r], contentStatus[r], echoOf[r]>>

Isolation ==
  /\ [](\A r \in Req :
          pc[r] = "Done" =>
            \E rand \in 0..(Gran - 1) :
              LET alone == Alone(request[r], variants[r], rand, variantText[r].text)
              IN alone.variant = variant[r] /\ alone.response = result[r])
  /\ [][\A r \in Req : pc'[r] = pc[r] => Locals(r)' = Locals(r)]_vars

IsolationWitness ==
  /\ pc["r1"] = "Done" /\ pc["r2"] = "Rewriting"
  /\ listFetches["r1"] = 1 /\ listFetches["r2"] = 1
  /\ variant["r1"] = Str(URL1) /\ variant["r2"] = Str(URL2)
  /\ started = 2

====
